---- MODULE Spec2Model ----
(***************************************************************************)
(* Order aggregation and presentation engine of the WhatsApp order          *)
(* dashboard: getOrdersSummary, getTopItems, getDashboardStats and          *)
(* getOrdersOverTime (data/mockData.js) and the OrdersTable component       *)
(* (flatten, filter, sort, paginate).                                       *)
(*                                                                          *)
(* A JavaScript string is modelled as the sequence of its characters, each  *)
(* a one-character string, so that split, slice, includes, toLowerCase and  *)
(* the relational operators are computed and not assumed.                   *)
(***************************************************************************)
EXTENDS Integers, Sequences, FiniteSets, TLC

VARIABLES
    orders,                  \* the record collection (the `orders` argument / prop)
    summary,                 \* last value returned by getOrdersSummary
    series,                  \* last value returned by getOrdersOverTime
    topItems,                \* last value returned by getTopItems
    limit,                   \* the limit argument of the last getTopItems call
    stats,                   \* last value returned by getDashboardStats
    thrown,                  \* the exception the last aggregate call ended with
    called,                  \* the aggregate functions called so far
    mounted,                 \* per table instance: has the first render happened
    flattenedOrders,         \* per table: the array held by useMemo(flatten)
    filteredAndSortedOrders, \* per table: the array held by the second useMemo
    filters,                 \* per table: [search, itemType]
    sortConfig,              \* per table: [key, direction]
    currentPage,             \* per table: the page state
    flattened,               \* last value returned by the flattener
    repeated,                \* the aggregate functions called more than once
    pageOrders,              \* Orders page: the orders of the application state
    pageFilters,             \* Orders page: [search, itemType, dateRange, customer]
    exportLoading,           \* Export page: the ids of the options being exported
    exportComplete,          \* Export page: the title in the success message, or "null"
    exportData,              \* Export page: the last data downloaded and its type
    exportTimers,            \* Export page: pending 2 s timers of started exports
    clearTimers,             \* Export page: pending 3 s timers that clear the message
    appMounted,              \* AppProvider: have the mount effects run
    appLoading,              \* application state: loading
    appError,                \* application state: error, or "null"
    darkMode,                \* application state: darkMode
    route,                   \* the page shown by the router
    loadTimers,              \* pending 1 s timers of started loads
    loadsStarted,            \* number of loads started so far
    timeout,                 \* debounce: the timer id held by `timeout`, or 0
    timers,                  \* debounce: the pending timers of the host
    nextTimerId,             \* debounce: the id the next setTimeout returns
    sinceCall,               \* debounce: time since the last call, up to wait
    calls,                   \* debounce: the calls of the wrapper so far
    invoked                  \* debounce: the invocations of func so far

vars == <<orders, summary, series, topItems, limit, stats, thrown, called, mounted,
          flattenedOrders, filteredAndSortedOrders, filters, sortConfig,
          currentPage, flattened, repeated, pageOrders,
          pageFilters, exportLoading, exportComplete, exportData,
          exportTimers, clearTimers, appMounted, appLoading, appError,
          darkMode, route, loadTimers, loadsStarted, timeout, timers,
          nextTimerId, sinceCall, calls, invoked>>

aggVars == <<summary, series, topItems, limit, stats, thrown, called>>
tableVars == <<mounted, flattenedOrders, filteredAndSortedOrders, filters,
               sortConfig, currentPage>>
exportVars == <<exportLoading, exportComplete, exportData, exportTimers,
                clearTimers>>
appVars == <<appMounted, appLoading, appError, darkMode, route, loadTimers,
             loadsStarted>>
debounceVars == <<timeout, timers, nextTimerId, sinceCall, calls, invoked>>
pageVars == <<flattened, repeated, pageOrders, pageFilters, exportVars,
              appVars, debounceVars>>

-----------------------------------------------------------------------------
(* Bounds of the model.                                                     *)

\* longest record collection given to getOrdersSummary
MaxOrders == 2
\* most line items in one record given to getOrdersSummary
MaxItems == 2
\* longest record collection given to getOrdersOverTime
MaxTimes == 3
\* longest record collection given to getTopItems
MaxTopOrders == 2
\* longest record collection given to OrdersTable
MaxTableOrders == 2
\* the pageSize prop of OrdersTable
PageSize == 1
\* largest page size the rows are cut into pages by
MaxPageSize == 3

-----------------------------------------------------------------------------
(* Strings.                                                                 *)

\* The characters the model's strings use, in increasing UTF-16 code unit
\* order: this is the order of JavaScript's < and > on strings.
CodeOrder ==
    <<" ", "(", ")", ",", "-", "/", "0", "1", "2", "3", "4", "5", "6", "7", "8", "9", ":",
      "A", "J", "K", "M", "N", "P", "R", "S", "_",
      "a", "e", "h", "i", "j", "k", "m", "n", "p", "r", "s", "t", "u", "y">>

\* the rank of each character in CodeOrder
Code == [c \in {CodeOrder[i] : i \in 1..Len(CodeOrder)} |->
            CHOOSE i \in 1..Len(CodeOrder) : CodeOrder[i] = c]

UpperCase == <<"A", "J", "K", "M", "N", "P", "R", "S">>
LowerCase == <<"a", "j", "k", "m", "n", "p", "r", "s">>

\* the lower-case form of each character
LowerOf == [c \in {CodeOrder[i] : i \in 1..Len(CodeOrder)} |->
               IF \E k \in 1..Len(UpperCase) : UpperCase[k] = c
               THEN LowerCase[CHOOSE k \in 1..Len(UpperCase) : UpperCase[k] = c]
               ELSE c]

\* String.prototype.toLowerCase
toLowerCase(s) == [i \in 1..Len(s) |-> LowerOf[s[i]]]

\* a < b on two strings: by the first code unit that differs, a proper prefix
\* first
StrLess(a, b) ==
    LET n == IF Len(a) < Len(b) THEN Len(a) ELSE Len(b)
        diff == {i \in 1..n : a[i] # b[i]}
        d == CHOOSE i \in diff : \A k \in diff : i <= k
    IN  IF diff = {} THEN Len(a) < Len(b) ELSE Code[a[d]] < Code[b[d]]

\* String.prototype.includes
includes(s, sub) ==
    \E k \in 0..(Len(s) - Len(sub)) :
        \A i \in 1..Len(sub) : s[k + i] = sub[i]

Digits == <<"0", "1", "2", "3", "4", "5", "6", "7", "8", "9">>

IsDigit(c) == \E k \in 1..10 : Digits[k] = c

DigitVal(c) == (CHOOSE k \in 1..10 : Digits[k] = c) - 1

\* String(n) for an integer n >= 0, as a template literal converts a number
RECURSIVE NumToStr(_)
NumToStr(n) ==
    IF n < 10 THEN <<Digits[n + 1]>>
    ELSE NumToStr(n \div 10) \o <<Digits[(n % 10) + 1]>>

-----------------------------------------------------------------------------
(* Sums over sequences.                                                     *)

RECURSIVE SumQty(_)
SumQty(items) ==
    IF items = <<>> THEN 0 ELSE Head(items).qty + SumQty(Tail(items))

RECURSIVE SumOrders(_)
SumOrders(os) ==
    IF os = <<>> THEN 0 ELSE SumQty(Head(os).orders) + SumOrders(Tail(os))

RECURSIVE SumTotals(_)
SumTotals(ss) ==
    IF ss = <<>> THEN 0 ELSE Head(ss).totalQuantity + SumTotals(Tail(ss))

Min(S) == CHOOSE x \in S : \A y \in S : x <= y

-----------------------------------------------------------------------------
(* Record data.                                                             *)

Raj == <<"R", "a", "j">>
RajKumar == <<"R", "a", "j", " ", "K", "u", "m", "a", "r">>
Priya == <<"P", "r", "i", "y", "a">>
Phone9 == <<"9", "9", "9", "9", "9", "9", "9", "9", "9", "9">>
Phone8 == <<"8", "8", "8", "8", "8", "8", "8", "8", "8", "8">>
Phone1 == <<"1", "1", "1", "1", "1", "1", "1", "1", "1", "1">>
Shirt == <<"S", "h", "i", "r", "t">>
Jeans == <<"J", "e", "a", "n", "s">>
\* an item name that differs from Shirt by case only
ShirtLower == <<"s", "h", "i", "r", "t">>
\* an item name that is a decimal integer
Item2 == <<"2">>
Date17 == <<"2", "0", "2", "4", "-", "1", "0", "-", "1", "7">>
T1005AM == <<"1", "0", ":", "0", "5", " ", "A", "M">>
T1045AM == <<"1", "0", ":", "4", "5", " ", "A", "M">>
T1100AM == <<"1", "1", ":", "0", "0", " ", "A", "M">>
T1230AM == <<"1", "2", ":", "3", "0", " ", "A", "M">>
T1215PM == <<"1", "2", ":", "1", "5", " ", "P", "M">>
T0200PM == <<"0", "2", ":", "0", "0", " ", "P", "M">>
T0315PM == <<"0", "3", ":", "1", "5", " ", "P", "M">>
T0900AM == <<"0", "9", ":", "0", "0", " ", "A", "M">>
\* an hour without zero padding, as formatTime's hour: 'numeric' writes it
T200PM == <<"2", ":", "0", "0", " ", "P", "M">>
\* times that are not 12-hour clock times
T1400 == <<"1", "4", ":", "0", "0">>
T1300PM == <<"1", "3", ":", "0", "0", " ", "P", "M">>

\* an order record
Order(id, name, phone, items, time) ==
    [id |-> id, name |-> name, phone |-> phone, orders |-> items,
     time |-> time, date |-> Date17]

\* sequences over S of length lo..hi
SeqsOf(S, lo, hi) == UNION {[1..n -> S] : n \in lo..hi}

\* the record collection with ids 1, 2, ... in order, as the data source
\* assigns them
WithIds(os) == [i \in 1..Len(os) |-> [os[i] EXCEPT !.id = i]]

-----------------------------------------------------------------------------
(* getOrdersSummary.  The `summary` object is the sequence of its entries   *)
(* in insertion order, each with its property key; its keys hold a "_" and  *)
(* so are never array indices, and Object.values lists them in insertion    *)
(* order.                                                                   *)

\* const key = `${order.name}_${order.phone}`
SummaryKey(order) == order.name \o <<"_">> \o order.phone

\* the body of order.orders.forEach, always pushing
AddItemNoMerge(entry, item) ==
    [entry EXCEPT !.items = Append(@, item),
                  !.totalQuantity = @ + item.qty]

\* the body of order.orders.forEach, counting new items only in the total
AddItemTotalNewOnly(entry, item) ==
    LET found == {i \in 1..Len(entry.items) : entry.items[i].item = item.item}
    IN  IF found # {}
        THEN [entry EXCEPT !.items[Min(found)].qty = @ + item.qty]
        ELSE [entry EXCEPT !.items = Append(@, item),
                           !.totalQuantity = @ + item.qty]

\* the body of order.orders.forEach
AddItem(entry, item) ==
    LET found == {i \in 1..Len(entry.items) : entry.items[i].item = item.item}
    IN  [entry EXCEPT
            !.items = IF found # {}
                      THEN [@ EXCEPT ![Min(found)].qty = @ + item.qty]
                      ELSE Append(@, item),
            !.totalQuantity = @ + item.qty]

RECURSIVE AddItems(_, _)
AddItems(entry, items) ==
    IF items = <<>> THEN entry
    ELSE AddItems(AddItem(entry, Head(items)), Tail(items))

\* the body of orders.forEach, a new key listed before the older ones
AddOrderFront(sm, order) ==
    LET key == SummaryKey(order)
        s1 == IF \E i \in 1..Len(sm) : sm[i].key = key
              THEN sm
              ELSE <<[key |-> key, name |-> order.name,
                      phone |-> order.phone, items |-> <<>>,
                      totalQuantity |-> 0]>> \o sm
        at == CHOOSE i \in 1..Len(s1) : s1[i].key = key
    IN  [s1 EXCEPT ![at] = AddItems(@, order.orders)]

\* the body of orders.forEach
AddOrder(sm, order) ==
    LET key == SummaryKey(order)
        s1 == IF \E i \in 1..Len(sm) : sm[i].key = key
              THEN sm
              ELSE Append(sm, [key |-> key, name |-> order.name,
                               phone |-> order.phone, items |-> <<>>,
                               totalQuantity |-> 0])
        at == CHOOSE i \in 1..Len(s1) : s1[i].key = key
    IN  [s1 EXCEPT ![at] = AddItems(@, order.orders)]

RECURSIVE SummaryObject(_, _)
SummaryObject(sm, os) ==
    IF os = <<>> THEN sm
    ELSE SummaryObject(AddOrder(sm, Head(os)), Tail(os))

getOrdersSummary(os) ==
    LET sm == SummaryObject(<<>>, os)
    IN  [i \in 1..Len(sm) |->
            [name |-> sm[i].name, phone |-> sm[i].phone,
             items |-> sm[i].items, totalQuantity |-> sm[i].totalQuantity]]


-----------------------------------------------------------------------------
(* Array.prototype.sort: stable (ECMAScript 2019).  For a comparator that   *)
(* is a consistent ordering, the result is the one permutation in which the *)
(* elements are in comparator order and equal elements keep their order.    *)
(* before[i][j] is "the comparator returns a negative number for            *)
(* (arr[i], arr[j])".                                                       *)

StableSort(arr, before) ==
    LET n == Len(arr)
        rank == [i \in 1..n |->
                    1 + Cardinality({j \in 1..n :
                            \/ before[j][i]
                            \/ ~before[i][j] /\ j < i})]
    IN  [k \in 1..n |-> arr[CHOOSE i \in 1..n : rank[i] = k]]

-----------------------------------------------------------------------------
(* getOrdersOverTime.  The `timeData` object is the sequence of its entries *)
(* in insertion order; its keys end in "AM" or "PM" and so are never array  *)
(* indices, and Object.entries lists them in insertion order.               *)

\* s.split(':')[0]: the part of s before its first ':' (all of s without one)
SplitColonFirst(s) ==
    LET colons == {i \in 1..Len(s) : s[i] = ":"}
    IN  IF colons = {} THEN s ELSE SubSeq(s, 1, Min(colons) - 1)

\* parseInt(s) of a string of decimal digits; "NaN" when s starts with none
RECURSIVE parseInt(_)
parseInt(s) ==
    LET lead == {i \in 0..Len(s) : \A k \in 1..i : IsDigit(s[k])}
        n == CHOOSE i \in lead : \A k \in lead : k <= i
    IN  IF n = 0 THEN "NaN"
        ELSE IF n = 1 THEN DigitVal(s[1])
        ELSE 10 * parseInt(SubSeq(s, 1, n - 1)) + DigitVal(s[n])

PM == <<"P", "M">>
AM == <<"A", "M">>

\* const timeKey = `${hour}${period}`
TimeKey(order) ==
    LET hour == SplitColonFirst(order.time)
        period == IF includes(order.time, PM) THEN PM ELSE AM
    IN  hour \o period

\* timeData[timeKey] = (timeData[timeKey] || 0) + 1
CountTime(td, order) ==
    LET key == TimeKey(order)
    IN  IF \E i \in 1..Len(td) : td[i].time = key
        THEN [i \in 1..Len(td) |->
                IF td[i].time = key
                THEN [td[i] EXCEPT !.orders = @ + 1] ELSE td[i]]
        ELSE Append(td, [time |-> key, orders |-> 1])

RECURSIVE TimeData(_, _)
TimeData(td, os) ==
    IF os = <<>> THEN td ELSE TimeData(CountTime(td, Head(os)), Tail(os))

\* the getHour of the sort comparator
getHour(timeStr) ==
    LET hour == parseInt(SubSeq(timeStr, 1, Len(timeStr) - 2))
        period == SubSeq(timeStr, Len(timeStr) - 1, Len(timeStr))
    IN  IF period = PM /\ hour # 12 THEN hour + 12 ELSE hour

\* (a, b) => getHour(a.time) - getHour(b.time) is negative
HourBefore(a, b) == getHour(a.time) - getHour(b.time) < 0

getOrdersOverTime(os) ==
    LET entries == TimeData(<<>>, os)
        n == Len(entries)
    IN  StableSort(entries,
            [i \in 1..n |-> [j \in 1..n |-> HourBefore(entries[i], entries[j])]])

TimeValues ==
    {T1005AM, T1045AM, T1100AM, T1230AM, T1215PM, T0200PM, T0315PM, T0900AM}

TimeRecords ==
    {Order(0, Raj, Phone9, <<[item |-> Shirt, qty |-> 2]>>, t) : t \in TimeValues}

TimeInputs == {WithIds(os) : os \in SeqsOf(TimeRecords, 0, MaxTimes)}

\* time strings of any shape: zero-padded, not padded, and malformed
AnyTimeValues == {T1005AM, T1045AM, T0200PM, T200PM, T1400, T1300PM}

AnyTimeRecords ==
    {Order(0, Raj, Phone9, <<[item |-> Shirt, qty |-> 2]>>, t) :
        t \in AnyTimeValues}

AnyTimeInputs == {WithIds(os) : os \in SeqsOf(AnyTimeRecords, 0, MaxTimes)}

-----------------------------------------------------------------------------
(* getTopItems.  The `itemCounts` object is the sequence of its entries in  *)
(* insertion order; its keys are item names, which may be array indices, so *)
(* Object.entries lists them in own-property-key order.                     *)

\* the largest array index, 2^32 - 2, in decimal
MaxArrayIndex == <<"4", "2", "9", "4", "9", "6", "7", "2", "9", "4">>

\* a < b for two canonical decimal numerals
NumStrLess(a, b) == Len(a) < Len(b) \/ (Len(a) = Len(b) /\ StrLess(a, b))

\* a property key that is an array index: the canonical decimal numeral of an
\* integer in 0 .. 2^32 - 2
IsArrayIndex(key) ==
    /\ Len(key) >= 1
    /\ \A i \in 1..Len(key) : IsDigit(key[i])
    /\ Len(key) = 1 \/ key[1] # "0"
    /\ ~NumStrLess(MaxArrayIndex, key)

\* key a is listed before key b whatever their insertion order
KeyBefore(a, b) ==
    IsArrayIndex(a) /\ (~IsArrayIndex(b) \/ NumStrLess(a, b))

\* the order in which Object.entries / Object.values list the properties
\* whose keys, in insertion order, are `keys`: array indices in ascending
\* numeric order, then the other keys in insertion order; the result is the
\* sequence of insertion positions
OwnKeyOrder(keys) ==
    LET n == Len(keys)
    IN  StableSort([i \in 1..n |-> i],
            [i \in 1..n |-> [j \in 1..n |-> KeyBefore(keys[i], keys[j])]])

\* itemCounts[item.item] = item.qty
CountItemLast(ic, item) ==
    IF \E i \in 1..Len(ic) : ic[i].item = item.item
    THEN [i \in 1..Len(ic) |->
            IF ic[i].item = item.item
            THEN [ic[i] EXCEPT !.count = item.qty] ELSE ic[i]]
    ELSE Append(ic, [item |-> item.item, count |-> item.qty])

\* itemCounts[item.item] = (itemCounts[item.item] || 0) + item.qty
CountItem(ic, item) ==
    IF \E i \in 1..Len(ic) : ic[i].item = item.item
    THEN [i \in 1..Len(ic) |->
            IF ic[i].item = item.item
            THEN [ic[i] EXCEPT !.count = @ + item.qty] ELSE ic[i]]
    ELSE Append(ic, [item |-> item.item, count |-> item.qty])

RECURSIVE CountItems(_, _)
CountItems(ic, items) ==
    IF items = <<>> THEN ic ELSE CountItems(CountItem(ic, Head(items)), Tail(items))

RECURSIVE ItemCounts(_, _)
ItemCounts(ic, os) ==
    IF os = <<>> THEN ic
    ELSE ItemCounts(CountItems(ic, Head(os).orders), Tail(os))

\* Object.entries(itemCounts)
ItemEntries(ic) ==
    LET order == OwnKeyOrder([i \in 1..Len(ic) |-> ic[i].item])
    IN  [k \in 1..Len(ic) |-> ic[order[k]]]

\* arr.slice(0, end): a negative end counts from the end of arr
SliceTo(arr, end) ==
    LET k == IF end < 0
             THEN (IF Len(arr) + end > 0 THEN Len(arr) + end ELSE 0)
             ELSE (IF end < Len(arr) THEN end ELSE Len(arr))
    IN  SubSeq(arr, 1, k)

\* the limit parameter's default value
DefaultLimit == 10

getTopItems(os, lim) ==
    LET entries == ItemEntries(ItemCounts(<<>>, os))
        n == Len(entries)
        sorted == StableSort(entries,
                      [i \in 1..n |-> [j \in 1..n |->
                          entries[j].count - entries[i].count < 0]])
    IN  SliceTo(sorted, lim)

\* the string 'N/A'
NA == <<"N", "/", "A">>

\* getDashboardStats naming the least ordered item
getDashboardStatsLeast(os) ==
    LET top == getTopItems(os, DefaultLimit)
    IN  [totalOrders |-> Len(os),
         uniqueCustomers |-> Cardinality({os[i].phone : i \in 1..Len(os)}),
         mostOrderedItem |-> IF Len(top) > 0 THEN top[Len(top)].item ELSE NA,
         totalQuantity |-> SumOrders(os)]

\* getDashboardStats counting customers by name
getDashboardStatsByName(os) ==
    LET top == getTopItems(os, 1)
    IN  [totalOrders |-> Len(os),
         uniqueCustomers |-> Cardinality({os[i].name : i \in 1..Len(os)}),
         mostOrderedItem |-> IF Len(top) > 0 THEN top[1].item ELSE NA,
         totalQuantity |-> SumOrders(os)]

\* getDashboardStats with an empty name when no item is ranked
getDashboardStatsBlank(os) ==
    LET top == getTopItems(os, 1)
    IN  [totalOrders |-> Len(os),
         uniqueCustomers |-> Cardinality({os[i].phone : i \in 1..Len(os)}),
         mostOrderedItem |-> IF Len(top) > 0 THEN top[1].item ELSE <<>>,
         totalQuantity |-> SumOrders(os)]

getDashboardStats(os) ==
    LET top == getTopItems(os, 1)
    IN  [totalOrders |-> Len(os),
         uniqueCustomers |-> Cardinality({os[i].phone : i \in 1..Len(os)}),
         mostOrderedItem |-> IF Len(top) > 0 THEN top[1].item ELSE NA,
         totalQuantity |-> SumOrders(os)]

-----------------------------------------------------------------------------
(* Inputs of the aggregate functions.                                       *)

LineItems == {[item |-> Shirt, qty |-> 2], [item |-> Jeans, qty |-> 1]}

SummaryRecords ==
    {Order(0, n, p, its, T1005AM) :
        n \in {Raj, RajKumar}, p \in {Phone9, Phone8},
        its \in SeqsOf(LineItems, 1, MaxItems)}

SummaryInputs == {WithIds(os) : os \in SeqsOf(SummaryRecords, 0, MaxOrders)}

-----------------------------------------------------------------------------
(* Table state before the first render (the useState initial values).       *)

Tables == {1, 2}

TableInit ==
    /\ mounted = [t \in Tables |-> FALSE]
    /\ flattenedOrders = [t \in Tables |-> <<>>]
    /\ filteredAndSortedOrders = [t \in Tables |-> <<>>]
    /\ filters = [t \in Tables |-> [search |-> <<>>, itemType |-> <<>>]]
    /\ sortConfig = [t \in Tables |-> [key |-> "time", direction |-> "desc"]]
    /\ currentPage = [t \in Tables |-> 1]

\* the value of `stats` before getDashboardStats has returned
NoStats ==
    [totalOrders |-> 0, uniqueCustomers |-> 0, mostOrderedItem |-> <<>>,
     totalQuantity |-> 0]

\* the other components before anything has happened
CallsInit ==
    /\ flattened = <<>>
    /\ repeated = {}

\* the useState initial value of the Orders page's filters
NoPageFilters ==
    [search |-> <<>>, itemType |-> <<>>,
     dateRange |-> [start |-> <<>>, end |-> <<>>], customer |-> <<>>]

OrdersPageInit ==
    /\ pageOrders = <<>>
    /\ pageFilters = NoPageFilters

\* the Export page before any export: the useState initial values
ExportInit ==
    /\ exportLoading = {}
    /\ exportComplete = "null"
    /\ exportData = [type |-> "none", data |-> <<>>]
    /\ exportTimers = <<>>
    /\ clearTimers = <<>>

\* initialState of the application context, before the provider's effects
AppStateInit ==
    /\ appMounted = FALSE
    /\ appLoading = FALSE
    /\ appError = "null"
    /\ darkMode = FALSE
    /\ route = "/"
    /\ loadTimers = <<>>
    /\ loadsStarted = 0

\* a wrapper just returned by debounce: `let timeout;`, nothing called yet
DebounceInit ==
    /\ timeout = 0
    /\ timers = <<>>
    /\ nextTimerId = 1
    /\ sinceCall = 0
    /\ calls = <<>>
    /\ invoked = <<>>

PageInit ==
    /\ CallsInit
    /\ OrdersPageInit
    /\ ExportInit
    /\ AppStateInit
    /\ DebounceInit

AggInit ==
    /\ summary = <<>>
    /\ series = <<>>
    /\ topItems = <<>>
    /\ limit = DefaultLimit
    /\ stats = NoStats
    /\ thrown = "none"
    /\ called = {}


-----------------------------------------------------------------------------
(* OrdersTable.                                                             *)

\* order.orders.map keeping the record's first line item only
FlattenOrderFirst(order) ==
    [k \in 1..1 |->
        [id |-> NumToStr(order.id) \o <<"-">> \o order.orders[k].item,
         name |-> order.name,
         phone |-> order.phone,
         item |-> order.orders[k].item,
         quantity |-> order.orders[k].qty,
         time |-> order.time,
         date |-> order.date]]

\* const flattenedOrders = useMemo(() => orders.flatMap(...), [orders])
FlattenOrder(order) ==
    [k \in 1..Len(order.orders) |->
        [id |-> NumToStr(order.id) \o <<"-">> \o order.orders[k].item,
         name |-> order.name,
         phone |-> order.phone,
         item |-> order.orders[k].item,
         quantity |-> order.orders[k].qty,
         time |-> order.time,
         date |-> order.date]]

RECURSIVE Flatten(_)
Flatten(os) ==
    IF os = <<>> THEN <<>> ELSE FlattenOrder(Head(os)) \o Flatten(Tail(os))

\* the columns of the table header
Columns == {"name", "phone", "item", "quantity", "time"}

\* typeof row[key] === 'string': every column but quantity holds a string
IsStringColumn(key) == key # "quantity"

\* aValue < bValue in the comparator, after the toLowerCase of strings
ValueLess(key, a, b) ==
    IF IsStringColumn(key)
    THEN StrLess(toLowerCase(a[key]), toLowerCase(b[key]))
    ELSE a[key] < b[key]

\* the comparator of filtered.sort returns a negative number for (a, b)
RowBefore(sc, a, b) ==
    \/ sc.direction = "asc" /\ ValueLess(sc.key, a, b)
    \/ sc.direction # "asc" /\ ValueLess(sc.key, b, a)

\* the predicate of the search filter, comparing without lower-casing
MatchesSearchExact(row, search) ==
    \/ includes(row.name, search)
    \/ includes(row.phone, search)
    \/ includes(row.item, search)

\* the predicate of the search filter
MatchesSearch(row, search) ==
    \/ includes(toLowerCase(row.name), toLowerCase(search))
    \/ includes(row.phone, search)
    \/ includes(toLowerCase(row.item), toLowerCase(search))

\* the body of the second useMemo.  `filtered` starts as the flattenedOrders
\* array itself; each filter that applies makes a new array; sort works in
\* place on whichever array `filtered` is.  The value is the array returned
\* and the contents of flattenedOrders afterwards.
FilterAndSort(flat, f, sc) ==
    LET bySearch == IF f.search # <<>>
                    THEN SelectSeq(flat, LAMBDA r : MatchesSearch(r, f.search))
                    ELSE flat
        byItem == IF f.itemType # <<>>
                  THEN SelectSeq(bySearch, LAMBDA r : r.item = f.itemType)
                  ELSE bySearch
        isFlat == f.search = <<>> /\ f.itemType = <<>>
        n == Len(byItem)
        sorted == StableSort(byItem,
                    [i \in 1..n |-> [j \in 1..n |-> RowBefore(sc, byItem[i], byItem[j])]])
    IN  [result |-> sorted, flat |-> IF isFlat THEN sorted ELSE flat]

CeilDiv(a, b) == (a + b - 1) \div b

Max2(a, b) == IF a > b THEN a ELSE b
Min2(a, b) == IF a < b THEN a ELSE b

totalPages(t) == CeilDiv(Len(filteredAndSortedOrders[t]), PageSize)

startIndex(t) == (currentPage[t] - 1) * PageSize

\* the rows of a page, each page starting where the one before it started
PageOfOverlap(arr, page, pageSize) ==
    LET start == page - 1
    IN  SubSeq(arr, Min2(start, Len(arr)) + 1, Min2(start + pageSize, Len(arr)))

\* the rows of page `page` of arr for a page size:
\* arr.slice(startIndex, startIndex + pageSize), startIndex = (page - 1) * pageSize
PageOf(arr, page, pageSize) ==
    LET start == (page - 1) * pageSize
    IN  SubSeq(arr, Min2(start, Len(arr)) + 1, Min2(start + pageSize, Len(arr)))

\* filteredAndSortedOrders.slice(startIndex, startIndex + pageSize)
paginatedOrders(t) == PageOf(filteredAndSortedOrders[t], currentPage[t], PageSize)

\* the options of the item select: the items of flattenedOrders
itemTypes(t) == {flattenedOrders[t][i].item : i \in 1..Len(flattenedOrders[t])}

\* the texts typed into the search box
SearchValues == {<<>>, <<"S", "h">>}

\* a render in which the second useMemo runs again
Rerender(t, flat, f, sc) ==
    LET r == FilterAndSort(flat, f, sc)
    IN  /\ flattenedOrders' = [flattenedOrders EXCEPT ![t] = r.flat]
        /\ filteredAndSortedOrders' = [filteredAndSortedOrders EXCEPT ![t] = r.result]

\* the first render of a table
Mount(t) ==
    /\ ~mounted[t]
    /\ mounted' = [mounted EXCEPT ![t] = TRUE]
    /\ Rerender(t, Flatten(orders), filters[t], sortConfig[t])
    /\ UNCHANGED <<orders, filters, sortConfig, currentPage>>
    /\ UNCHANGED aggVars
    /\ UNCHANGED pageVars

\* a click on a column header, a newly chosen column sorting descending
handleSortDescending(t, key) ==
    /\ mounted[t]
    /\ LET prev == sortConfig[t]
           next == [key |-> key,
                    direction |-> IF prev.key = key /\ prev.direction = "desc"
                                  THEN "asc" ELSE "desc"]
       IN  /\ sortConfig' = [sortConfig EXCEPT ![t] = next]
           /\ Rerender(t, flattenedOrders[t], filters[t], next)
    /\ UNCHANGED <<orders, mounted, filters, currentPage>>
    /\ UNCHANGED aggVars
    /\ UNCHANGED pageVars

\* a click on a column header
handleSort(t, key) ==
    /\ mounted[t]
    /\ LET prev == sortConfig[t]
           next == [key |-> key,
                    direction |-> IF prev.key = key /\ prev.direction = "asc"
                                  THEN "desc" ELSE "asc"]
       IN  /\ sortConfig' = [sortConfig EXCEPT ![t] = next]
           /\ Rerender(t, flattenedOrders[t], filters[t], next)
    /\ UNCHANGED <<orders, mounted, filters, currentPage>>
    /\ UNCHANGED aggVars
    /\ UNCHANGED pageVars

\* onChange of the search input
SetSearch(t, value) ==
    /\ mounted[t]
    /\ LET f == [filters[t] EXCEPT !.search = value]
       IN  /\ filters' = [filters EXCEPT ![t] = f]
           /\ Rerender(t, flattenedOrders[t], f, sortConfig[t])
    /\ currentPage' = [currentPage EXCEPT ![t] = 1]
    /\ UNCHANGED <<orders, mounted, sortConfig>>
    /\ UNCHANGED aggVars
    /\ UNCHANGED pageVars

\* onChange of the item select
SetItemType(t, value) ==
    /\ mounted[t]
    /\ value \in itemTypes(t) \cup {<<>>}
    /\ LET f == [filters[t] EXCEPT !.itemType = value]
       IN  /\ filters' = [filters EXCEPT ![t] = f]
           /\ Rerender(t, flattenedOrders[t], f, sortConfig[t])
    /\ currentPage' = [currentPage EXCEPT ![t] = 1]
    /\ UNCHANGED <<orders, mounted, sortConfig>>
    /\ UNCHANGED aggVars
    /\ UNCHANGED pageVars

\* the pages the enabled pagination buttons ask for
PageButtons(t) ==
    IF totalPages(t) > 1
    THEN (IF currentPage[t] # 1 THEN {1, currentPage[t] - 1} ELSE {})
         \cup (IF currentPage[t] # totalPages(t)
               THEN {currentPage[t] + 1, totalPages(t)} ELSE {})
    ELSE {}

\* a click on a pagination button
goToPage(t, page) ==
    /\ mounted[t]
    /\ page \in PageButtons(t)
    /\ currentPage' = [currentPage EXCEPT ![t] = Max2(1, Min2(page, totalPages(t)))]
    /\ UNCHANGED <<orders, mounted, flattenedOrders, filteredAndSortedOrders,
                   filters, sortConfig>>
    /\ UNCHANGED aggVars
    /\ UNCHANGED pageVars

\* the parent passes another array as the orders prop: both useMemo run again
\* in every mounted table; the page state is kept
SetOrders(os) ==
    /\ \E t \in Tables : mounted[t]
    /\ orders' = os
    /\ flattenedOrders' =
          [t \in Tables |->
              IF mounted[t]
              THEN FilterAndSort(Flatten(os), filters[t], sortConfig[t]).flat
              ELSE flattenedOrders[t]]
    /\ filteredAndSortedOrders' =
          [t \in Tables |->
              IF mounted[t]
              THEN FilterAndSort(Flatten(os), filters[t], sortConfig[t]).result
              ELSE filteredAndSortedOrders[t]]
    /\ UNCHANGED <<mounted, filters, sortConfig, currentPage>>
    /\ UNCHANGED aggVars
    /\ UNCHANGED pageVars

\* the records shown in a table: two line items of different names, two of
\* the same name, and a single one
TableRecords ==
    { Order(0, Raj, Phone9,
            <<[item |-> Shirt, qty |-> 2], [item |-> Jeans, qty |-> 1]>>, T1005AM),
      Order(0, Priya, Phone8,
            <<[item |-> Shirt, qty |-> 1], [item |-> Shirt, qty |-> 2]>>, T0200PM),
      Order(0, Raj, Phone9, <<[item |-> Jeans, qty |-> 1]>>, T0200PM) }

TableInputs == {WithIds(os) : os \in SeqsOf(TableRecords, 0, MaxTableOrders)}

InitTable ==
    /\ orders \in TableInputs
    /\ AggInit
    /\ TableInit
    /\ PageInit

TableStep(t) ==
    \/ Mount(t)
    \/ \E key \in Columns : handleSort(t, key)
    \/ \E value \in SearchValues : SetSearch(t, value)
    \/ \E value \in {<<>>, Shirt, Jeans} : SetItemType(t, value)
    \/ \E page \in PageButtons(t) : goToPage(t, page)

\* one table over a fixed orders prop
NextTable == TableStep(1)

SpecTable == InitTable /\ [][NextTable]_vars

\* one table whose parent changes the orders prop
NextTableProp ==
    \/ TableStep(1)
    \/ \E os \in TableInputs : SetOrders(os)

SpecTableProp == InitTable /\ [][NextTableProp]_vars

\* two tables over the same fixed orders prop, of at most one record
InitTablePair ==
    /\ orders \in {os \in TableInputs : Len(os) <= 1}
    /\ AggInit
    /\ TableInit
    /\ PageInit

NextTablePair == \E t \in Tables : TableStep(t)

SpecTablePair == InitTablePair /\ [][NextTablePair]_vars


-----------------------------------------------------------------------------
(* Claims about OrdersTable.                                                *)

NoFilter(t) == filters[t].search = <<>> /\ filters[t].itemType = <<>>

\* the comparator returns 0 for (a, b) under sort key `key`
KeyEqual(key, a, b) == ~ValueLess(key, a, b) /\ ~ValueLess(key, b, a)

\* C4: the sort is stable with respect to the flattened input order: with no
\* filter active, the rows whose values under the current sort key are equal
\* appear in the same relative order as in the flattened row sequence derived
\* from the orders prop.
C4_StableWrtFlattenedOrder ==
    \A t \in Tables :
        mounted[t] /\ NoFilter(t) =>
            \A i \in 1..Len(filteredAndSortedOrders[t]) :
                LET r == filteredAndSortedOrders[t][i]
                    same(x) == KeyEqual(sortConfig[t].key, x, r)
                IN  SelectSeq(filteredAndSortedOrders[t], same)
                        = SelectSeq(Flatten(orders), same)

\* C5: the rows shown depend only on the current arguments: two tables over
\* the same orders and page size that are in the same filter, sort and page
\* configuration show identical rows in identical order.
C5_SameConfigurationSameRows ==
    ( /\ mounted[1] /\ mounted[2]
      /\ filters[1] = filters[2]
      /\ sortConfig[1] = sortConfig[2]
      /\ currentPage[1] = currentPage[2] )
        => paginatedOrders(1) = paginatedOrders(2)

\* C6: filtering and sorting never change the flattened row collection: the
\* memoized flattenedOrders has the same elements in the same order as when it
\* was computed from the orders prop.
C6_FlattenedOrdersUnchanged ==
    \A t \in Tables : mounted[t] => flattenedOrders[t] = Flatten(orders)

\* C7: the page shown is a valid page: 1 <= currentPage <= max(1, totalPages).
C7_CurrentPageValid ==
    \A t \in Tables :
        mounted[t] =>
            /\ 1 <= currentPage[t]
            /\ currentPage[t] <= Max2(1, totalPages(t))

\* C8: the flattener gives every row an id that is unique across the whole
\* output, for record collections with distinct record ids.
C8_UniqueRowIds ==
    \A t \in Tables :
        mounted[t] =>
            \A i, j \in 1..Len(flattenedOrders[t]) :
                flattenedOrders[t][i].id = flattenedOrders[t][j].id => i = j

-----------------------------------------------------------------------------
(* The aggregator: a record collection and calls of getOrdersSummary.       *)

InitSummary ==
    /\ orders \in SummaryInputs
    /\ AggInit
    /\ TableInit
    /\ PageInit

CallGetOrdersSummary ==
    /\ "getOrdersSummary" \notin called
    /\ summary' = getOrdersSummary(orders)
    /\ thrown' = "none"
    /\ called' = called \cup {"getOrdersSummary"}
    /\ UNCHANGED <<orders, series, topItems, limit, stats>>
    /\ UNCHANGED tableVars
    /\ UNCHANGED pageVars

NextSummary == CallGetOrdersSummary

SpecSummary == InitSummary /\ [][NextSummary]_vars

-----------------------------------------------------------------------------
(* Claims about getOrdersSummary.                                           *)

SummaryDone == "getOrdersSummary" \in called

Phones(os) == {os[i].phone : i \in 1..Len(os)}

\* C1: getOrdersSummary returns exactly one summary per distinct phone: all
\* records sharing a phone contribute to one single summary entry, even when
\* their names differ.
C1_OneSummaryPerPhone ==
    SummaryDone =>
        /\ Len(summary) = Cardinality(Phones(orders))
        /\ \A p \in Phones(orders) :
              Cardinality({i \in 1..Len(summary) : summary[i].phone = p}) = 1

\* C2: the sum of totalQuantity over all summaries equals the sum of qty over
\* every line item of every record.
C2_SumInvariant ==
    SummaryDone => SumTotals(summary) = SumOrders(orders)

\* C2 witness: two records of two customers, one of them with two line items
\* of the same name, have been summarised.
C2_Witness ==
    /\ SummaryDone
    /\ Len(orders) = 2
    /\ Len(summary) = 2
    /\ \E i \in 1..2 : Len(orders[i].orders) = 2 /\ Len(summary[i].items) = 1
    /\ SumTotals(summary) >= 4

\* C3: in every summary, totalQuantity equals the sum of the qty of its items,
\* and each item name occurs at most once in items.
C3_TotalIsSumOfItems ==
    SummaryDone =>
        \A i \in 1..Len(summary) :
            /\ summary[i].totalQuantity = SumQty(summary[i].items)
            /\ \A a, b \in 1..Len(summary[i].items) :
                  summary[i].items[a].item = summary[i].items[b].item => a = b

\* C3 witness: one customer's two records, the first holding the same item
\* name twice and the second holding it again, were added into one entry.
C3_Witness ==
    /\ SummaryDone
    /\ Len(orders) = 2
    /\ Len(summary) = 1
    /\ orders[1].orders = <<[item |-> Shirt, qty |-> 2], [item |-> Shirt, qty |-> 2]>>
    /\ orders[2].orders = <<[item |-> Jeans, qty |-> 1], [item |-> Shirt, qty |-> 2]>>
    /\ summary[1].items = <<[item |-> Shirt, qty |-> 6], [item |-> Jeans, qty |-> 1]>>
    /\ summary[1].totalQuantity = 7

\* the records that contribute to summary entry s: those with its name and
\* phone
Contributors(os, s) ==
    {i \in 1..Len(os) : os[i].name = s.name /\ os[i].phone = s.phone}

-----------------------------------------------------------------------------
(* The time bucketer: a record collection and calls of getOrdersOverTime.   *)

InitTime ==
    /\ orders \in TimeInputs
    /\ AggInit
    /\ TableInit
    /\ PageInit

CallGetOrdersOverTime ==
    /\ "getOrdersOverTime" \notin called
    /\ series' = getOrdersOverTime(orders)
    /\ thrown' = "none"
    /\ called' = called \cup {"getOrdersOverTime"}
    /\ UNCHANGED <<orders, summary, topItems, limit, stats>>
    /\ UNCHANGED tableVars
    /\ UNCHANGED pageVars

NextTime == CallGetOrdersOverTime

SpecTime == InitTime /\ [][NextTime]_vars

-----------------------------------------------------------------------------
(* Claims about getOrdersOverTime.                                          *)

SeriesDone == "getOrdersOverTime" \in called

\* the bucket key the time-of-day stands for: the hour as a number without
\* zero padding, then the designator
UnpaddedKey(time) ==
    NumToStr(parseInt(SplitColonFirst(time)))
        \o SubSeq(time, Len(time) - 1, Len(time))

\* C9: each bucket key is the hour without zero padding followed by the AM/PM
\* designator: a record with time "02:00 PM" is counted in the bucket "2PM".
C9_UnpaddedBucketKey ==
    SeriesDone =>
        \A i \in 1..Len(orders) :
            \E b \in 1..Len(series) : series[b].time = UnpaddedKey(orders[i].time)

\* hour of day on the 24-hour clock of a bucket key: 12AM is 0, 1AM..11AM are
\* 1..11, 12PM is 12, 1PM..11PM are 13..23
Hour24(key) ==
    LET h == parseInt(SubSeq(key, 1, Len(key) - 2))
        period == SubSeq(key, Len(key) - 1, Len(key))
    IN  (h % 12) + (IF period = PM THEN 12 ELSE 0)

\* C10: the series is ordered by hour of day on the 24-hour clock with 12AM
\* as hour 0: each bucket precedes all buckets of a later hour.
C10_ChronologicalOrder ==
    SeriesDone =>
        \A i, j \in 1..Len(series) :
            Hour24(series[i].time) < Hour24(series[j].time) => i < j

-----------------------------------------------------------------------------
(* The item ranking: a record collection and calls of getTopItems.          *)

\* line items whose names are Shirt, a name differing from it by case only,
\* and a decimal integer
TopLineItems ==
    {[item |-> Shirt, qty |-> 1], [item |-> ShirtLower, qty |-> 2],
     [item |-> Item2, qty |-> 1]}

\* one customer's records with any line items, another's with one line item
TopRecords ==
    {Order(0, Raj, Phone9, its, T1005AM) :
        its \in SeqsOf(TopLineItems, 1, MaxItems)}
    \cup {Order(0, Priya, Phone8, <<it>>, T1005AM) : it \in TopLineItems}

TopInputs == {WithIds(os) : os \in SeqsOf(TopRecords, 0, MaxTopOrders)}

\* the limit arguments: negative, zero, one, two, and the default
Limits == {-1, 0, 1, 2, DefaultLimit}

InitTop ==
    /\ orders \in TopInputs
    /\ AggInit
    /\ TableInit
    /\ PageInit

CallGetTopItems(lim) ==
    /\ "getTopItems" \notin called
    /\ topItems' = getTopItems(orders, lim)
    /\ limit' = lim
    /\ thrown' = "none"
    /\ called' = called \cup {"getTopItems"}
    /\ UNCHANGED <<orders, summary, series, stats>>
    /\ UNCHANGED tableVars
    /\ UNCHANGED pageVars

NextTop == \E lim \in Limits : CallGetTopItems(lim)

SpecTop == InitTop /\ [][NextTop]_vars

-----------------------------------------------------------------------------
(* Claims about getTopItems.                                                *)

TopDone == "getTopItems" \in called

\* all line items of all records, in iteration order
RECURSIVE AllItems(_)
AllItems(os) ==
    IF os = <<>> THEN <<>> ELSE Head(os).orders \o AllItems(Tail(os))

\* the distinct raw item names of the records
ItemNames(os) ==
    LET all == AllItems(os) IN {all[i].item : i \in 1..Len(all)}

\* position of the first line item named `name`
FirstSeen(os, name) ==
    LET all == AllItems(os) IN Min({i \in 1..Len(all) : all[i].item = name})

\* sum of qty over the line items named `name`
RECURSIVE QtyOf(_, _)
QtyOf(items, name) ==
    IF items = <<>> THEN 0
    ELSE (IF Head(items).item = name THEN Head(items).qty ELSE 0)
            + QtyOf(Tail(items), name)

\* C13: getTopItems returns the empty sequence for every limit <= 0,
\* negative limits included.
C13_NonPositiveLimitEmpty ==
    (TopDone /\ limit <= 0) => topItems = <<>>

\* C14: two items of the result with equal accumulated quantity appear in
\* first-seen order, also when item names are decimal integers.
C14_TiesInFirstSeenOrder ==
    TopDone =>
        \A a, b \in 1..Len(topItems) :
            (a < b /\ topItems[a].count = topItems[b].count) =>
                FirstSeen(orders, topItems[a].item)
                    < FirstSeen(orders, topItems[b].item)

\* C15: for a limit not below the number of distinct item names, the result
\* has one entry per distinct raw item name, its count is the sum of qty over
\* all records of all customers, and the counts are non-increasing.
C15_FullRanking ==
    (TopDone /\ limit >= Cardinality(ItemNames(orders))) =>
        /\ Len(topItems) = Cardinality(ItemNames(orders))
        /\ LET all == AllItems(orders)
           IN  \A name \in ItemNames(orders) :
                   \E k \in 1..Len(topItems) :
                       /\ topItems[k].item = name
                       /\ topItems[k].count = QtyOf(all, name)
        /\ \A a, b \in 1..Len(topItems) :
              a < b => topItems[a].count >= topItems[b].count

\* C15 witness: two customers' records naming Shirt, shirt and 2, Shirt in
\* both, have been ranked with a limit equal to the number of names.
C15_Witness ==
    /\ TopDone
    /\ limit = 2
    /\ Len(orders) = 2
    /\ orders[1].phone # orders[2].phone
    /\ orders[1].orders = <<[item |-> Shirt, qty |-> 1], [item |-> Shirt, qty |-> 1]>>
    /\ orders[2].orders = <<[item |-> ShirtLower, qty |-> 2]>>
    /\ topItems = <<[item |-> Shirt, count |-> 2], [item |-> ShirtLower, count |-> 2]>>

-----------------------------------------------------------------------------
(* The dashboard statistics: a record collection and calls of               *)
(* getDashboardStats.                                                       *)

CallGetDashboardStats ==
    /\ "getDashboardStats" \notin called
    /\ stats' = getDashboardStats(orders)
    /\ thrown' = "none"
    /\ called' = called \cup {"getDashboardStats"}
    /\ UNCHANGED <<orders, summary, series, topItems, limit>>
    /\ UNCHANGED tableVars
    /\ UNCHANGED pageVars

\* getDashboardStats, and the getTopItems(orders, 1) it is defined by
NextStats ==
    \/ CallGetDashboardStats
    \/ CallGetTopItems(1)

SpecStats == InitSummary /\ [][NextStats]_vars

StatsDone == "getDashboardStats" \in called

\* C17: mostOrderedItem is 'N/A' when there are no records; otherwise it is
\* the item of the first entry of what getTopItems(orders, 1) returns, and
\* no item has a greater accumulated quantity.
C17_MostOrderedItem ==
    StatsDone =>
        IF Len(orders) = 0
        THEN stats.mostOrderedItem = NA
        ELSE LET all == AllItems(orders)
                 most == QtyOf(all, stats.mostOrderedItem)
             IN  /\ TopDone => stats.mostOrderedItem = topItems[1].item
                 /\ stats.mostOrderedItem \in ItemNames(orders)
                 /\ \A name \in ItemNames(orders) : most >= QtyOf(all, name)

\* C17 witness: Jeans, met after Shirt and with a greater accumulated
\* quantity, has been named the most ordered item.
C17_Witness ==
    /\ StatsDone
    /\ TopDone
    /\ Len(orders) = 2
    /\ orders[1].orders[1].item = Shirt
    /\ QtyOf(AllItems(orders), Jeans) > QtyOf(AllItems(orders), Shirt)
    /\ stats.mostOrderedItem = Jeans

\* C18: uniqueCustomers is the number of distinct phone values, totalOrders
\* the number of records, totalQuantity the sum of qty over every line item.
C18_Counts ==
    StatsDone =>
        /\ stats.uniqueCustomers = Cardinality(Phones(orders))
        /\ stats.totalOrders = Len(orders)
        /\ stats.totalQuantity = SumQty(AllItems(orders))

\* C18 witness: two records with one phone and two names, one of them with
\* two line items, have been counted as one customer and two orders.
C18_Witness ==
    /\ StatsDone
    /\ Len(orders) = 2
    /\ orders[1].phone = orders[2].phone
    /\ orders[1].name # orders[2].name
    /\ Len(orders[1].orders) = 2
    /\ stats.uniqueCustomers = 1
    /\ stats.totalOrders = 2
    /\ stats.totalQuantity >= 3

-----------------------------------------------------------------------------
(* The time bucketer on time strings of any shape.                          *)

InitTimeAny ==
    /\ orders \in AnyTimeInputs
    /\ AggInit
    /\ TableInit
    /\ PageInit

SpecTimeAny == InitTimeAny /\ [][NextTime]_vars

\* the hour value a time-of-day starts with
HourValue(time) == parseInt(SplitColonFirst(time))

\* the AM/PM designator of a time-of-day, "" when it has none
Designator(time) ==
    IF includes(time, PM) THEN PM ELSE IF includes(time, AM) THEN AM ELSE <<>>

\* a 12-hour clock time: an hour in 1..12 and an AM/PM designator
WellFormedTime(time) ==
    /\ Designator(time) # <<>>
    /\ HourValue(time) \in 1..12

\* the records of os with hour value h and designator p
RecordsAt(os, h, p) ==
    {i \in 1..Len(os) : HourValue(os[i].time) = h /\ Designator(os[i].time) = p}

\* the buckets of sr that stand for hour value h and designator p
BucketsAt(sr, h, p) ==
    {b \in 1..Len(sr) :
        /\ parseInt(SubSeq(sr[b].time, 1, Len(sr[b].time) - 2)) = h
        /\ SubSeq(sr[b].time, Len(sr[b].time) - 1, Len(sr[b].time)) = p}

\* C11: for 12-hour clock times, all records of the same hour value and
\* designator are counted in one bucket: each (hour, designator) pair that
\* occurs has exactly one bucket, whose count is the number of its records,
\* and a pair that does not occur has none.
C11_OneBucketPerHourAndDesignator ==
    (SeriesDone /\ \A i \in 1..Len(orders) : WellFormedTime(orders[i].time)) =>
        \A h \in 1..12, p \in {AM, PM} :
            IF RecordsAt(orders, h, p) = {}
            THEN BucketsAt(series, h, p) = {}
            ELSE /\ Cardinality(BucketsAt(series, h, p)) = 1
                 /\ \A b \in BucketsAt(series, h, p) :
                       series[b].orders = Cardinality(RecordsAt(orders, h, p))

RECURSIVE SumCounts(_)
SumCounts(sr) ==
    IF sr = <<>> THEN 0 ELSE Head(sr).orders + SumCounts(Tail(sr))

\* C12: a call on a record whose time has no AM/PM designator or an hour
\* outside 1..12 ends with InvalidTimeFormat, and that record is counted in
\* no bucket.
C12_InvalidTimeFormat ==
    (SeriesDone /\ \E i \in 1..Len(orders) : ~WellFormedTime(orders[i].time)) =>
        /\ thrown = "InvalidTimeFormat"
        /\ SumCounts(series) =
              Cardinality({i \in 1..Len(orders) : WellFormedTime(orders[i].time)})

-----------------------------------------------------------------------------
(* Every operation over one record collection: the aggregate functions and  *)
(* one OrdersTable.                                                         *)

InitApp ==
    /\ orders \in {os \in TableInputs : Len(os) <= 1}
    /\ AggInit
    /\ TableInit
    /\ PageInit

NextApp ==
    \/ CallGetOrdersSummary
    \/ \E lim \in Limits : CallGetTopItems(lim)
    \/ CallGetDashboardStats
    \/ CallGetOrdersOverTime
    \/ TableStep(1)

SpecApp == InitApp /\ [][NextApp]_vars

\* C19: on an empty record collection no operation throws, and each gives
\* its no-data result: getOrdersSummary, getTopItems and getOrdersOverTime
\* the empty sequence, getDashboardStats 0, 0, 0 and 'N/A', and OrdersTable
\* no rows and a total of 0.
C19_EmptyCollection ==
    orders = <<>> =>
        /\ thrown = "none"
        /\ SummaryDone => summary = <<>>
        /\ TopDone => topItems = <<>>
        /\ SeriesDone => series = <<>>
        /\ StatsDone =>
              stats = [totalOrders |-> 0, uniqueCustomers |-> 0,
                       mostOrderedItem |-> NA, totalQuantity |-> 0]
        /\ mounted[1] =>
              /\ paginatedOrders(1) = <<>>
              /\ Len(filteredAndSortedOrders[1]) = 0

\* C19 witness: all four aggregate functions have been called on the empty
\* collection, getTopItems with a negative limit, and the table has rendered
\* it and been searched.
C19_Witness ==
    /\ orders = <<>>
    /\ called = {"getOrdersSummary", "getTopItems", "getOrdersOverTime",
                 "getDashboardStats"}
    /\ limit < 0
    /\ stats.mostOrderedItem = NA
    /\ mounted[1]
    /\ filters[1].search # <<>>

-----------------------------------------------------------------------------
(* One OrdersTable whose search box and item select are used.               *)

\* search texts: none, part of an item name, part of a customer name in
\* upper case, part of a phone, and a text no row holds
FilterSearchValues ==
    {<<>>, <<"S", "h">>, <<"R", "A">>, <<"8", "8">>, <<"K">>}

NextTableFilter ==
    \/ Mount(1)
    \/ handleSort(1, "quantity")
    \/ \E value \in FilterSearchValues : SetSearch(1, value)
    \/ \E value \in {<<>>, Shirt, Jeans} : SetItemType(1, value)

SpecTableFilter == InitTable /\ [][NextTableFilter]_vars

\* the filter condition on a row: the search text is empty or is held by
\* the lower-cased name, the raw phone or the lower-cased item, and the item
\* filter is empty or is the row's item
PassesFilter(row, f) ==
    /\ \/ f.search = <<>>
       \/ includes(toLowerCase(row.name), toLowerCase(f.search))
       \/ includes(row.phone, f.search)
       \/ includes(toLowerCase(row.item), toLowerCase(f.search))
    /\ f.itemType = <<>> \/ row.item = f.itemType

\* how many times row occurs in rows
Occurrences(rows, row) == Cardinality({i \in 1..Len(rows) : rows[i] = row})

\* C20: the rows shown are exactly the flattened rows that pass the filter
\* condition: a row that passes is kept, a row that fails is dropped.
C20_FilterPredicate ==
    mounted[1] =>
        /\ \A i \in 1..Len(flattenedOrders[1]) :
              LET row == flattenedOrders[1][i]
              IN  Occurrences(filteredAndSortedOrders[1], row) =
                      IF PassesFilter(row, filters[1])
                      THEN Occurrences(flattenedOrders[1], row)
                      ELSE 0
        /\ \A k \in 1..Len(filteredAndSortedOrders[1]) :
              Occurrences(flattenedOrders[1], filteredAndSortedOrders[1][k]) > 0

\* C20 witness: the upper-case search text RA and the item filter Shirt
\* together keep Raj's Shirt row and drop Raj's Jeans row and Priya's rows.
C20_Witness ==
    /\ mounted[1]
    /\ filters[1] = [search |-> <<"R", "A">>, itemType |-> Shirt]
    /\ Len(flattenedOrders[1]) >= 4
    /\ Len(filteredAndSortedOrders[1]) = 1
    /\ filteredAndSortedOrders[1][1].name = Raj
    /\ filteredAndSortedOrders[1][1].item = Shirt

-----------------------------------------------------------------------------
(* One OrdersTable whose rows are filtered and paged through.               *)

NextTablePages ==
    \/ Mount(1)
    \/ \E value \in SearchValues : SetSearch(1, value)
    \/ \E value \in {<<>>, Shirt, Jeans} : SetItemType(1, value)
    \/ \E page \in PageButtons(1) : goToPage(1, page)

SpecTablePages == InitTable /\ [][NextTablePages]_vars

\* pages 1..n of arr one after the other
RECURSIVE ConcatPages(_, _, _)
ConcatPages(arr, n, pageSize) ==
    IF n = 0 THEN <<>>
    ELSE ConcatPages(arr, n - 1, pageSize) \o PageOf(arr, n, pageSize)

\* C21: for every page size >= 1, the pages 1..ceil(total/pageSize) one
\* after the other are the filtered and sorted row sequence, no row twice
\* and none left out, total being the number of rows after filtering.
C21_PaginationComplete ==
    mounted[1] =>
        LET arr == filteredAndSortedOrders[1]
            total == Len(arr)
        IN  /\ \A ps \in 1..MaxPageSize :
                  ConcatPages(arr, CeilDiv(total, ps), ps) = arr
            /\ ConcatPages(arr, totalPages(1), PageSize) = arr

\* C21 witness: three rows left by the search are shown on more than one
\* page, and the table is on its last page.
C21_Witness ==
    /\ mounted[1]
    /\ filters[1].search # <<>>
    /\ Len(filteredAndSortedOrders[1]) = 3
    /\ currentPage[1] = totalPages(1)
    /\ currentPage[1] > 1
    /\ Len(paginatedOrders(1)) >= 1

-----------------------------------------------------------------------------
(* The flattener of OrdersTable: the flatMap of the first useMemo, applied  *)
(* to a record collection.                                                  *)

CallFlatten ==
    /\ "flatten" \notin called
    /\ flattened' = Flatten(orders)
    /\ called' = called \cup {"flatten"}
    /\ UNCHANGED <<orders, summary, series, topItems, limit, stats, thrown>>
    /\ UNCHANGED <<tableVars, repeated, pageOrders, pageFilters, exportVars,
                 appVars, debounceVars>>

NextFlatten == CallFlatten

SpecFlatten == InitSummary /\ [][NextFlatten]_vars

FlattenDone == "flatten" \in called

\* the number of line items of the records before record r
RECURSIVE ItemsBefore(_, _)
ItemsBefore(os, r) ==
    IF r = 1 THEN 0 ELSE ItemsBefore(os, r - 1) + Len(os[r - 1].orders)

-----------------------------------------------------------------------------
(* The aggregate functions run on objects that have an identity: a run of   *)
(* getOrdersSummary is followed through its writes.  An item object of a    *)
(* summary is either an object made by the call (ref = <<>>) or the line    *)
(* item object of the input at <<record, line item>>; a write to its qty    *)
(* writes the input in the second case.                                     *)

\* summary[key].items.push(item): the input's own line item object
PushItemShared(item, loc) ==
    [item |-> item.item, qty |-> item.qty, ref |-> loc]

\* summary[key].items.push({ ...item }): a new object with item's properties
PushItem(item, loc) ==
    [item |-> item.item, qty |-> item.qty, ref |-> <<>>]

\* the body of order.orders.forEach for line item k of record r; st holds the
\* summary object and the input as they are when the body starts
RunAddItem(st, r, k) ==
    LET order == st.input[r]
        item == order.orders[k]
        at == CHOOSE i \in 1..Len(st.sm) : st.sm[i].key = SummaryKey(order)
        entry == st.sm[at]
        found == {i \in 1..Len(entry.items) : entry.items[i].item = item.item}
        existingItem == entry.items[Min(found)]
        qty == existingItem.qty + item.qty
    IN  IF found # {}
        THEN [sm |-> [st.sm EXCEPT ![at].items[Min(found)].qty = qty,
                                   ![at].totalQuantity = @ + item.qty],
              input |-> IF existingItem.ref = <<>> THEN st.input
                        ELSE [st.input EXCEPT
                                ![existingItem.ref[1]].orders[existingItem.ref[2]].qty = qty]]
        ELSE [sm |-> [st.sm EXCEPT ![at].items = Append(@, PushItem(item, <<r, k>>)),
                                   ![at].totalQuantity = @ + item.qty],
              input |-> st.input]

RECURSIVE RunAddItems(_, _, _)
RunAddItems(st, r, k) ==
    IF k > Len(st.input[r].orders) THEN st
    ELSE RunAddItems(RunAddItem(st, r, k), r, k + 1)

\* the body of orders.forEach for record r
RunAddOrder(st, r) ==
    LET order == st.input[r]
        key == SummaryKey(order)
        s1 == IF \E i \in 1..Len(st.sm) : st.sm[i].key = key
              THEN st.sm
              ELSE Append(st.sm, [key |-> key, name |-> order.name,
                                  phone |-> order.phone, items |-> <<>>,
                                  totalQuantity |-> 0])
    IN  RunAddItems([sm |-> s1, input |-> st.input], r, 1)

RECURSIVE RunOrders(_, _)
RunOrders(st, r) ==
    IF r > Len(st.input) THEN st ELSE RunOrders(RunAddOrder(st, r), r + 1)

\* a run of getOrdersSummary(os): the value returned and os afterwards
RunGetOrdersSummary(os) ==
    LET st == RunOrders([sm |-> <<>>, input |-> os], 1)
    IN  [value |-> [i \in 1..Len(st.sm) |->
                      [name |-> st.sm[i].name, phone |-> st.sm[i].phone,
                       items |-> [j \in 1..Len(st.sm[i].items) |->
                                    [item |-> st.sm[i].items[j].item,
                                     qty |-> st.sm[i].items[j].qty]],
                       totalQuantity |-> st.sm[i].totalQuantity]],
         input |-> st.input]

\* longest record collection the functions are called on again and again
MaxPureOrders == 2

\* one customer's records with one line item, with an item name twice and
\* with two item names, and another customer's record
PureRecords ==
    {Order(0, Raj, Phone9, its, T1005AM) :
        its \in {<<[item |-> Shirt, qty |-> 2]>>,
                 <<[item |-> Shirt, qty |-> 2], [item |-> Shirt, qty |-> 2]>>,
                 <<[item |-> Jeans, qty |-> 1], [item |-> Shirt, qty |-> 2]>>}}
    \cup {Order(0, Priya, Phone8, <<[item |-> Shirt, qty |-> 2]>>, T0200PM)}

PureInputs == {WithIds(os) : os \in SeqsOf(PureRecords, 0, MaxPureOrders)}

InitPure ==
    /\ orders \in PureInputs
    /\ AggInit
    /\ TableInit
    /\ PageInit

\* what a call of fn adds to `called` and `repeated`
Calling(fn) ==
    /\ called' = called \cup {fn}
    /\ repeated' = IF fn \in called THEN repeated \cup {fn} ELSE repeated
    /\ thrown' = "none"
    /\ UNCHANGED <<tableVars, flattened, pageOrders, pageFilters, exportVars,
                 appVars, debounceVars>>

\* getOrdersSummary(orders), any number of times
AgainGetOrdersSummary ==
    /\ summary' = RunGetOrdersSummary(orders).value
    /\ orders' = RunGetOrdersSummary(orders).input
    /\ Calling("getOrdersSummary")
    /\ UNCHANGED <<series, topItems, limit, stats>>

\* getTopItems(orders, lim): it reads the records and writes itemCounts and
\* the arrays made from it only
AgainGetTopItems(lim) ==
    /\ topItems' = getTopItems(orders, lim)
    /\ limit' = lim
    /\ Calling("getTopItems")
    /\ UNCHANGED <<orders, summary, series, stats>>

\* getDashboardStats(orders): it reads the records only
AgainGetDashboardStats ==
    /\ stats' = getDashboardStats(orders)
    /\ Calling("getDashboardStats")
    /\ UNCHANGED <<orders, summary, series, topItems, limit>>

\* getOrdersOverTime(orders): it reads the records and writes timeData and
\* the array made from it only
AgainGetOrdersOverTime ==
    /\ series' = getOrdersOverTime(orders)
    /\ Calling("getOrdersOverTime")
    /\ UNCHANGED <<orders, summary, topItems, limit, stats>>

NextPure ==
    \/ AgainGetOrdersSummary
    \/ \E lim \in {1, DefaultLimit} : AgainGetTopItems(lim)
    \/ AgainGetDashboardStats
    \/ AgainGetOrdersOverTime

SpecPure == InitPure /\ [][NextPure]_vars

\* C23: the four aggregate functions leave their input unchanged: no call
\* changes a record or a line item, and a call repeated on the collection
\* returns what the earlier call returned.
C23_InputUnchanged ==
    [][/\ orders' = orders
       /\ SummaryDone => summary' = summary
       /\ SeriesDone => series' = series
       /\ StatsDone => stats' = stats
       /\ (TopDone /\ limit' = limit) => topItems' = topItems]_vars

\* C23 witness: every function has been called more than once on records in
\* which an item name recurs, so that getOrdersSummary has added to the qty
\* of an item object it had pushed before.
C23_Witness ==
    /\ repeated = {"getOrdersSummary", "getTopItems", "getDashboardStats",
                   "getOrdersOverTime"}
    /\ Len(orders) = 2
    /\ Len(summary) = 1
    /\ summary[1].items[1].item = orders[1].orders[1].item
    /\ summary[1].items[1].qty > orders[1].orders[1].qty

-----------------------------------------------------------------------------
(* The Orders page: its filters select records of the application's orders, *)
(* and the records selected are the orders prop of an OrdersTable shown     *)
(* without its own filter controls.                                         *)

\* the search filter of the page: a record is kept when its name, its phone
\* or some line item's name holds the search text
RecordMatchesSearch(order, search) ==
    \/ includes(toLowerCase(order.name), toLowerCase(search))
    \/ includes(order.phone, search)
    \/ \E k \in 1..Len(order.orders) :
          includes(toLowerCase(order.orders[k].item), toLowerCase(search))

\* the date range filter of the page; dates are ISO yyyy-mm-dd texts, whose
\* order as Date values is their order as strings
InDateRange(order, range) ==
    /\ range.start = <<>> \/ ~StrLess(order.date, range.start)
    /\ range.end = <<>> \/ ~StrLess(range.end, order.date)

\* the value of the filteredOrders useMemo
filteredOrders(os, f) ==
    LET bySearch == IF f.search # <<>>
                    THEN SelectSeq(os, LAMBDA o : RecordMatchesSearch(o, f.search))
                    ELSE os
        byCustomer == IF f.customer # <<>>
                      THEN SelectSeq(bySearch, LAMBDA o : o.name = f.customer)
                      ELSE bySearch
        byItem == IF f.itemType # <<>>
                  THEN SelectSeq(byCustomer,
                          LAMBDA o : \E k \in 1..Len(o.orders) :
                                        o.orders[k].item = f.itemType)
                  ELSE byCustomer
    IN  IF f.dateRange.start # <<>> \/ f.dateRange.end # <<>>
        THEN SelectSeq(byItem, LAMBDA o : InDateRange(o, f.dateRange))
        ELSE byItem

InitOrdersPage ==
    /\ pageOrders \in TableInputs
    /\ pageFilters = NoPageFilters
    /\ orders = pageOrders
    /\ AggInit
    /\ TableInit
    /\ CallsInit
    /\ ExportInit
    /\ AppStateInit
    /\ DebounceInit

\* a change of the page's filters: filteredOrders is computed again and the
\* table renders with it as its orders prop
SetPageFilters(f) ==
    /\ mounted[1]
    /\ f # pageFilters
    /\ pageFilters' = f
    /\ LET os == filteredOrders(pageOrders, f)
           r == FilterAndSort(Flatten(os), filters[1], sortConfig[1])
       IN  /\ orders' = os
           /\ flattenedOrders' = [flattenedOrders EXCEPT ![1] = r.flat]
           /\ filteredAndSortedOrders' =
                 [filteredAndSortedOrders EXCEPT ![1] = r.result]
    /\ UNCHANGED <<mounted, filters, sortConfig, currentPage>>
    /\ UNCHANGED <<aggVars, flattened, repeated, pageOrders, exportVars,
                 appVars, debounceVars>>

\* the item types offered by the page's item select
PageItemTypes == {<<>>, Shirt, Jeans}

NextOrdersPage ==
    \/ Mount(1)
    \/ \E v \in PageItemTypes :
          SetPageFilters([pageFilters EXCEPT !.itemType = v])
    \/ \E v \in SearchValues :
          SetPageFilters([pageFilters EXCEPT !.search = v])
    \/ \E page \in PageButtons(1) : goToPage(1, page)

SpecOrdersPage == InitOrdersPage /\ [][NextOrdersPage]_vars

\* C24: on the Orders page, when an item type is selected, every row the
\* table displays has an item identical to the selected item type.
C24_PageItemFilterRows ==
    (mounted[1] /\ pageFilters.itemType # <<>>) =>
        \A i \in 1..Len(paginatedOrders(1)) :
            paginatedOrders(1)[i].item = pageFilters.itemType

-----------------------------------------------------------------------------
(* One OrdersTable whose column headers are clicked.                        *)

NextTableSort ==
    \/ Mount(1)
    \/ \E key \in Columns : handleSort(1, key)

SpecTableSort == InitTable /\ [][NextTableSort]_vars

\* C25: a click on a column header makes that column the sort key; a click
\* on the column that is the sort key switches ascending to descending and
\* descending to ascending; a click on another column sorts ascending; from
\* the initial (time, descending) a click on time gives (time, ascending).
C25_SortToggle ==
    [][\A key \in Columns :
          handleSort(1, key) =>
              /\ sortConfig'[1].key = key
              /\ sortConfig'[1].direction =
                    IF sortConfig[1].key # key THEN "asc"
                    ELSE IF sortConfig[1].direction = "asc" THEN "desc"
                    ELSE "asc"
              /\ (sortConfig[1] = [key |-> "time", direction |-> "desc"]
                      /\ key = "time")
                    => sortConfig'[1] = [key |-> "time", direction |-> "asc"]]_vars

\* C25 witness: the name column, clicked twice in a row, sorts a table of
\* several rows descending.
C25_Witness ==
    /\ mounted[1]
    /\ sortConfig[1] = [key |-> "name", direction |-> "desc"]
    /\ Len(filteredAndSortedOrders[1]) >= 3

-----------------------------------------------------------------------------
(* The Export page: handleExport.  The `summaryMap` object is the sequence  *)
(* of its entries in insertion order; its keys are phone strings, which may *)
(* be array indices, so Object.values lists them in own-property-key order. *)
(* Each entry's `items` object is kept the same way.                        *)

\* const key = order.phone
ExportKey(order) == order.phone

\* the body of orders.forEach in the summary branch
ExportAddOrder(sm, order) ==
    LET key == ExportKey(order)
        s1 == IF \E i \in 1..Len(sm) : sm[i].key = key
              THEN sm
              ELSE Append(sm, [key |-> key, name |-> order.name,
                               phone |-> order.phone, items |-> <<>>,
                               totalQuantity |-> 0])
        at == CHOOSE i \in 1..Len(s1) : s1[i].key = key
    IN  [s1 EXCEPT ![at].items = CountItems(@, order.orders),
                   ![at].totalQuantity = @ + SumQty(order.orders)]

RECURSIVE ExportSummaryMap(_, _)
ExportSummaryMap(sm, os) ==
    IF os = <<>> THEN sm
    ELSE ExportSummaryMap(ExportAddOrder(sm, Head(os)), Tail(os))

\* entries.map(([item, qty]) => `${item} (${qty})`).join(', ')
RECURSIVE JoinItems(_)
JoinItems(entries) ==
    IF entries = <<>> THEN <<>>
    ELSE LET text == Head(entries).item \o <<" ", "(">>
                        \o NumToStr(Head(entries).count) \o <<")">>
         IN  IF Len(entries) = 1 THEN text
             ELSE text \o <<",", " ">> \o JoinItems(Tail(entries))

\* data of the summary options: Object.values(summaryMap).map(...)
ExportSummaryData(os) ==
    LET sm == ExportSummaryMap(<<>>, os)
        order == OwnKeyOrder([i \in 1..Len(sm) |-> sm[i].key])
    IN  [k \in 1..Len(sm) |->
            [name |-> sm[order[k]].name,
             phone |-> sm[order[k]].phone,
             items |-> JoinItems(ItemEntries(sm[order[k]].items)),
             totalQuantity |-> sm[order[k]].totalQuantity]]

\* the rows of one record in the data of the orders options
ExportOrderRows(order) ==
    [k \in 1..Len(order.orders) |->
        [customerName |-> order.name, phone |-> order.phone,
         item |-> order.orders[k].item, quantity |-> order.orders[k].qty,
         time |-> order.time, date |-> order.date]]

\* data of the orders options: orders.flatMap(...)
RECURSIVE ExportOrdersData(_)
ExportOrdersData(os) ==
    IF os = <<>> THEN <<>>
    ELSE ExportOrderRows(Head(os)) \o ExportOrdersData(Tail(os))

\* an orders option and a summary option of exportOptions
ExportOptions ==
    {[id |-> "orders-excel", title |-> "Orders - Excel Format", type |-> "orders"],
     [id |-> "summary-excel", title |-> "Customer Summary - Excel", type |-> "summary"]}

\* seconds before the simulated export resolves
ExportWait == 2
\* seconds before the success message is cleared
ClearWait == 3

\* longest record collection on the Export page
MaxExportOrders == 2

\* records of customers whose phones are and are not array indices, one
\* phone under two names
ExportRecords ==
    {Order(0, c[1], c[2], its, T1005AM) :
        c \in {<<Raj, Phone9>>, <<RajKumar, Phone9>>, <<Priya, Phone1>>},
        its \in {<<[item |-> Shirt, qty |-> 2]>>,
                 <<[item |-> Jeans, qty |-> 1], [item |-> Shirt, qty |-> 2]>>}}

ExportInputs == {WithIds(os) : os \in SeqsOf(ExportRecords, 0, MaxExportOrders)}

InitExport ==
    /\ orders \in ExportInputs
    /\ AggInit
    /\ TableInit
    /\ CallsInit
    /\ OrdersPageInit
    /\ ExportInit
    /\ AppStateInit
    /\ DebounceInit

\* what the Export page's steps leave alone
ExportFrame ==
    UNCHANGED <<orders, aggVars, tableVars, flattened, repeated, pageOrders,
                pageFilters, appVars, debounceVars>>

\* a click on an option's Download button: handleExport up to its await
ClickExport(option) ==
    /\ option.id \notin exportLoading
    /\ exportLoading' = exportLoading \cup {option.id}
    /\ exportTimers' = Append(exportTimers, [option |-> option, left |-> ExportWait])
    /\ UNCHANGED <<exportComplete, exportData, clearTimers>>
    /\ ExportFrame

\* the 2 s timer of the oldest started export fires: handleExport from its
\* await to its end
ExportResolves ==
    /\ exportTimers # <<>>
    /\ Head(exportTimers).left = 0
    /\ LET option == Head(exportTimers).option
       IN  /\ exportData' =
                 [type |-> option.type,
                  data |-> IF option.type = "orders"
                           THEN ExportOrdersData(orders)
                           ELSE ExportSummaryData(orders)]
           /\ exportComplete' = option.title
           /\ clearTimers' = Append(clearTimers, [of |-> option.title, left |-> ClearWait])
           /\ exportLoading' = exportLoading \ {option.id}
    /\ exportTimers' = Tail(exportTimers)
    /\ ExportFrame

\* the oldest 3 s timer fires: setExportComplete(null)
ClearFires ==
    /\ clearTimers # <<>>
    /\ Head(clearTimers).left = 0
    /\ exportComplete' = "null"
    /\ clearTimers' = Tail(clearTimers)
    /\ UNCHANGED <<exportLoading, exportData, exportTimers>>
    /\ ExportFrame

\* the user closes the success message: onClose of the Alert
CloseAlert ==
    /\ exportComplete # "null"
    /\ exportComplete' = "null"
    /\ UNCHANGED <<exportLoading, exportData, exportTimers, clearTimers>>
    /\ ExportFrame

\* a second passes; a timer that is due fires before the next second does
Tick ==
    /\ exportTimers # <<>> \/ clearTimers # <<>>
    /\ \A i \in 1..Len(exportTimers) : exportTimers[i].left > 0
    /\ \A i \in 1..Len(clearTimers) : clearTimers[i].left > 0
    /\ exportTimers' = [i \in 1..Len(exportTimers) |->
                           [exportTimers[i] EXCEPT !.left = @ - 1]]
    /\ clearTimers' = [i \in 1..Len(clearTimers) |->
                          [clearTimers[i] EXCEPT !.left = @ - 1]]
    /\ UNCHANGED <<exportLoading, exportComplete, exportData>>
    /\ ExportFrame

NextExport ==
    \/ \E option \in ExportOptions : ClickExport(option)
    \/ ExportResolves
    \/ ClearFires
    \/ CloseAlert
    \/ Tick

SpecExport == InitExport /\ [][NextExport]_vars

\* position of the first record of os with the phone
FirstOfPhone(os, phone) == Min({i \in 1..Len(os) : os[i].phone = phone})

\* the item objects of a summary of getOrdersSummary written as the Export
\* page writes them
ItemsText(items) ==
    JoinItems([j \in 1..Len(items) |->
                  [item |-> items[j].item, count |-> items[j].qty]])

\* C26: the customer summary the Export page builds and the one
\* getOrdersSummary builds agree: as many customers and, entry by entry, the
\* same name, phone, accumulated quantity of each item and totalQuantity.
C26_ExportAgreesWithSummary ==
    exportData.type = "summary" =>
        LET rows == exportData.data
            sums == getOrdersSummary(orders)
        IN  /\ Len(rows) = Len(sums)
            /\ \A i \in 1..Len(rows) :
                  /\ rows[i].name = sums[i].name
                  /\ rows[i].phone = sums[i].phone
                  /\ rows[i].items = ItemsText(sums[i].items)
                  /\ rows[i].totalQuantity = sums[i].totalQuantity

\* C27: the exported summary rows are in first-seen customer order: the row
\* of a phone first seen earlier precedes the row of a phone first seen
\* later, for 10-digit phones such as 1111111111 and 9999999999.
C27_ExportFirstSeenOrder ==
    exportData.type = "summary" =>
        \A a, b \in 1..Len(exportData.data) :
            a < b => FirstOfPhone(orders, exportData.data[a].phone)
                        < FirstOfPhone(orders, exportData.data[b].phone)

\* C28: a success message stays displayed until the user closes it or the
\* 3 s timer of its own export fires: no timer that fires removes a message
\* while the timer scheduled for that message is still running.
C28_ClearOwnMessageOnly ==
    [][(ClearFires /\ exportComplete # "null") =>
            ~\E i \in 1..Len(clearTimers) :
                /\ clearTimers[i].of = exportComplete
                /\ clearTimers[i].left > 0]_vars

-----------------------------------------------------------------------------
(* The application context: AppProvider's reducer state, its mount effect,  *)
(* fetchOrders, and the Dashboard's load effect. `orders` is state.orders.  *)
(* Time passes in whole seconds. An effect runs after the render that        *)
(* follows a state change, with the state of that render; the Dashboard's   *)
(* effect depends on `actions`, a new object on every render, so it runs    *)
(* after every render of the Dashboard.                                     *)

\* the first two records of mockOrders, abridged
mockOrders ==
    WithIds(<<Order(0, RajKumar, Phone9,
                    <<[item |-> Shirt, qty |-> 2], [item |-> Jeans, qty |-> 1]>>,
                    T1005AM),
              Order(0, Priya, Phone8, <<[item |-> Shirt, qty |-> 2]>>, T1005AM)>>)

\* appReducer, on the fields orders, loading, error and darkMode (the filters
\* field and its two action types are not part of the model)
appReducer(state, action) ==
    CASE action.type = "SET_LOADING" ->
            [state EXCEPT !.loading = action.payload]
      [] action.type = "SET_ORDERS" ->
            [state EXCEPT !.orders = action.payload, !.loading = FALSE,
                          !.error = "null"]
      [] action.type = "SET_ERROR" ->
            [state EXCEPT !.error = action.payload, !.loading = FALSE]
      [] action.type = "TOGGLE_DARK_MODE" ->
            [state EXCEPT !.darkMode = ~state.darkMode]
      [] OTHER -> state

\* a Dashboard effect that asks for a load whenever nothing is loading
ShouldFetchNotLoading(os, loading) == ~loading

\* the condition of the Dashboard's effect: orders.length === 0 && !loading
ShouldFetch(os, loading) == Len(os) = 0 /\ ~loading

\* seconds before a started load delivers the mock orders
LoadWait == 1

\* most loads counted
MaxLoads == 4

\* the paths of the router
Routes == {"/", "/orders", "/summaries", "/export"}

\* the state held by useReducer
AppState ==
    [orders |-> orders, loading |-> appLoading, error |-> appError,
     darkMode |-> darkMode]

\* the start of a load: dispatch SET_LOADING true and a 1 s timer, as in the
\* provider's effect and in fetchOrders up to its await
StartLoad(c, by) ==
    [state |-> appReducer(c.state, [type |-> "SET_LOADING", payload |-> TRUE]),
     timers |-> Append(c.timers, [by |-> by, left |-> LoadWait])]

\* the Dashboard's effect after a render with state c.state on path rt
DashboardEffect(c, rt) ==
    IF rt = "/" /\ ShouldFetch(c.state.orders, c.state.loading)
    THEN StartLoad(c, "dashboard")
    ELSE c

\* the state and timers after a step, `fired` timers having been delivered
Commit(c, fired) ==
    /\ orders' = c.state.orders
    /\ appLoading' = c.state.loading
    /\ appError' = c.state.error
    /\ darkMode' = c.state.darkMode
    /\ loadTimers' = c.timers
    /\ LET n == loadsStarted + Len(c.timers) + fired - Len(loadTimers)
       IN  loadsStarted' = IF n > MaxLoads THEN MaxLoads ELSE n

\* what the application's steps leave alone
AppFrame ==
    UNCHANGED <<aggVars, tableVars, flattened, repeated, pageOrders,
                pageFilters, exportVars, debounceVars>>

\* the effects after the first render: the Dashboard's (a child's effects
\* run first), then the provider's, then the Dashboard's again after the
\* render with loading = true
MountApp ==
    /\ ~appMounted
    /\ appMounted' = TRUE
    /\ LET c0 == [state |-> AppState, timers |-> loadTimers]
           c1 == DashboardEffect(c0, route)
           c2 == StartLoad(c1, "provider")
       IN  Commit(DashboardEffect(c2, route), 0)
    /\ UNCHANGED route
    /\ AppFrame

\* a click on Refresh Data (Dashboard) or Refresh (Orders), which are
\* disabled while loading: actions.fetchOrders() up to its await
Refresh ==
    /\ appMounted
    /\ route \in {"/", "/orders"}
    /\ ~appLoading
    /\ loadsStarted < MaxLoads
    /\ LET c == StartLoad([state |-> AppState, timers |-> loadTimers], "user")
       IN  Commit(DashboardEffect(c, route), 0)
    /\ UNCHANGED <<appMounted, route>>
    /\ AppFrame

\* the oldest 1 s timer fires: dispatch SET_ORDERS with mockOrders
LoadCompletes ==
    /\ loadTimers # <<>>
    /\ Head(loadTimers).left = 0
    /\ LET c == [state |-> appReducer(AppState, [type |-> "SET_ORDERS",
                                                 payload |-> mockOrders]),
                 timers |-> Tail(loadTimers)]
       IN  Commit(DashboardEffect(c, route), 1)
    /\ UNCHANGED <<appMounted, route>>
    /\ AppFrame

\* a click on the dark mode button of the navigation bar
ToggleDarkMode ==
    /\ appMounted
    /\ LET c == [state |-> appReducer(AppState, [type |-> "TOGGLE_DARK_MODE"]),
                 timers |-> loadTimers]
       IN  Commit(DashboardEffect(c, route), 0)
    /\ UNCHANGED <<appMounted, route>>
    /\ AppFrame

\* the user goes to another page; the Dashboard's effect runs when it mounts
Navigate(rt) ==
    /\ appMounted
    /\ rt # route
    /\ route' = rt
    /\ Commit(DashboardEffect([state |-> AppState, timers |-> loadTimers], rt), 0)
    /\ UNCHANGED appMounted
    /\ AppFrame

\* a second passes; a timer that is due fires before the next second does
AppTick ==
    /\ loadTimers # <<>>
    /\ \A i \in 1..Len(loadTimers) : loadTimers[i].left > 0
    /\ loadTimers' = [i \in 1..Len(loadTimers) |->
                         [loadTimers[i] EXCEPT !.left = @ - 1]]
    /\ UNCHANGED <<orders, appMounted, appLoading, appError, darkMode, route,
                   loadsStarted>>
    /\ AppFrame

\* the page opened first is any page of the router
InitLoad ==
    /\ orders = <<>>
    /\ AggInit
    /\ TableInit
    /\ CallsInit
    /\ OrdersPageInit
    /\ ExportInit
    /\ DebounceInit
    /\ appMounted = FALSE
    /\ appLoading = FALSE
    /\ appError = "null"
    /\ darkMode = FALSE
    /\ route \in Routes
    /\ loadTimers = <<>>
    /\ loadsStarted = 0

NextLoad ==
    \/ MountApp
    \/ Refresh
    \/ LoadCompletes
    \/ ToggleDarkMode
    \/ \E rt \in Routes : Navigate(rt)
    \/ AppTick

SpecLoad == InitLoad /\ [][NextLoad]_vars

\* effects run after the first render, time passes, and a timer that is due
\* is delivered
SpecLoadFair ==
    /\ SpecLoad
    /\ WF_vars(MountApp)
    /\ WF_vars(AppTick)
    /\ WF_vars(LoadCompletes)

\* the orders are loaded
Loaded == ~appLoading /\ appError = "null" /\ orders = mockOrders

\* C29: under fair delivery of timers the state eventually has loading =
\* false, error = null and orders = mockOrders, and does so after every load
\* that is started; a load that completes sets the orders; and once the
\* orders are non-empty a load is started only by a click on Refresh.
C29_OrdersLoad ==
    /\ <>Loaded
    /\ (loadTimers # <<>>) ~> Loaded
    /\ [][LoadCompletes => orders' = mockOrders]_vars
    /\ [][(orders # <<>> /\ loadsStarted' > loadsStarted) =>
              loadTimers'[Len(loadTimers')].by = "user"]_vars

\* the Dashboard is shown, both loads of the mount and a load of a Refresh
\* have completed, and nothing is pending
C29_Witness ==
    /\ appMounted
    /\ route = "/"
    /\ Loaded
    /\ loadsStarted >= 3
    /\ loadTimers = <<>>

-----------------------------------------------------------------------------
(* debounce(func, wait): one wrapper, its `timeout` variable and the timers *)
(* of the host. Time passes in ticks; the host delivers a timer at or after *)
(* its delay, so a call may arrive while a timer is due and not delivered.  *)

\* a clearTimeout that cancels nothing
clearTimeoutNone(tms, id) == tms

\* clearTimeout(id): the timer with that id, if pending, is cancelled
clearTimeout(tms, id) == SelectSeq(tms, LAMBDA t : t.id # id)

\* the `wait` argument of debounce, in ticks
wait == 2

\* most calls of the wrapper
MaxCalls == 4

\* argument lists the wrapper is called with
ArgLists == {<<"a">>, <<"b">>}

\* what the wrapper's steps leave alone
DebounceFrame ==
    UNCHANGED <<orders, aggVars, tableVars, flattened, repeated, pageOrders,
                pageFilters, exportVars, appVars>>

\* a call of the wrapper: clearTimeout(timeout); timeout = setTimeout(later, wait)
executedFunction(args) ==
    /\ Len(calls) < MaxCalls
    /\ timers' = Append(clearTimeout(timers, timeout),
                        [id |-> nextTimerId, args |-> args,
                         call |-> Len(calls) + 1, left |-> wait])
    /\ timeout' = nextTimerId
    /\ nextTimerId' = nextTimerId + 1
    /\ sinceCall' = 0
    /\ calls' = Append(calls,
                       [args |-> args,
                        first |-> calls = <<>> \/ sinceCall >= wait,
                        late |-> \E i \in 1..Len(timers) : timers[i].left = 0])
    /\ UNCHANGED invoked
    /\ DebounceFrame

\* the host delivers the oldest due timer: clearTimeout(timeout); func(...args)
later ==
    /\ timers # <<>>
    /\ Head(timers).left = 0
    /\ timers' = clearTimeout(Tail(timers), timeout)
    /\ invoked' = Append(invoked, [args |-> Head(timers).args,
                                   call |-> Head(timers).call,
                                   seen |-> Len(calls)])
    /\ UNCHANGED <<timeout, nextTimerId, sinceCall, calls>>
    /\ DebounceFrame

\* a tick passes; a timer that is due is delivered before the next tick
DebounceTick ==
    /\ timers # <<>> \/ (calls # <<>> /\ sinceCall < wait)
    /\ \A i \in 1..Len(timers) : timers[i].left > 0
    /\ timers' = [i \in 1..Len(timers) |-> [timers[i] EXCEPT !.left = @ - 1]]
    /\ sinceCall' = IF sinceCall < wait THEN sinceCall + 1 ELSE wait
    /\ UNCHANGED <<timeout, nextTimerId, calls, invoked>>
    /\ DebounceFrame

InitDebounce ==
    /\ orders = <<>>
    /\ AggInit
    /\ TableInit
    /\ PageInit

NextDebounce ==
    \/ \E args \in ArgLists : executedFunction(args)
    \/ later
    \/ DebounceTick

SpecDebounce == InitDebounce /\ [][NextDebounce]_vars

\* time passes and the host delivers a timer that is due
SpecDebounceFair ==
    /\ SpecDebounce
    /\ WF_vars(DebounceTick)
    /\ WF_vars(later)

\* call k is the last of its burst: no call followed it before its wait
\* expired
EndsBurst(k) == k = Len(calls) \/ calls[k + 1].first

\* the invocations of func made for call k
InvokedFor(k) == {j \in 1..Len(invoked) : invoked[j].call = k}

====
